---- MODULE Spec2Model ----
(***************************************************************************)
(* Model of the crypto monitoring backend: the job schedulers             *)
(* (crypto_web_app.py, scheduler.py, main.py), the ingestion passes       *)
(* (realtime_processor.py, data_processor.py) and the cache-aside read    *)
(* path of CryptoWebApp (crypto_web_app.py).                              *)
(*                                                                         *)
(* Four specifications share the variables:                                *)
(*   SchedSpec   the dispatch loops; time is a clock in seconds           *)
(*   Spec        ingestion passes, read path and cache                    *)
(*   IngestSpec  the ingestion passes alone, recording what a pass did    *)
(*               with every sample                                         *)
(*   ReadSpec    the read path alone over a fixed store, recording what   *)
(*               every call did                                            *)
(***************************************************************************)
EXTENDS Integers, Sequences, FiniteSets, TLC

VARIABLES
    \* ---- scheduler state ----
    kind,        \* which scheduler class runs: CryptoWebApp, CryptoScheduler, CryptoSystem
    clock,       \* wall clock, seconds since the process started
    twoAM,       \* the first instant (seconds) at which the wall clock shows 02:00
    jobs,        \* schedule.jobs of the default scheduler: sequence of job records
    is_running,  \* self.is_running
    tpc,         \* position of the dispatch thread
    todo,        \* run_pending: indexes of the due jobs still to run in this pass
    cur,         \* index of the job whose handler is executing (0: none)
    passes,      \* ingestion passes made inside the current realtime handler invocation
    runs,        \* executions of each task's handler since the current due check began
    starts,      \* calls of start_background_scheduler / schedule_tasks so far
    stopped,     \* a stop was requested at some time (stop_background_scheduler, Ctrl-C)
    raiser,      \* the task whose work raises on every invocation ("none": no such task)
    loop_errors, \* exceptions that have escaped schedule.run_pending() so far
    bg,          \* start/stop calls in progress and the dispatch threads they created
    full,        \* run_full_processing in progress: the steps it has called, with outcomes
    logcfg,      \* logger_config: the flag, the root logger's handlers, the calls in progress
    chart,       \* process_chart_data: the input of a call and what it returned
    \* ---- store, cache and read path ----
    redis_manager, \* CryptoWebApp.redis_manager: "manager", or "none" when construction failed
    dbPrices,    \* persistent store, current prices: per symbol <<>> or <<latest row>>
    dbHist,      \* persistent store, historical tables: set of rows
    cache,       \* the cache store: [latest, rt, chart], an entry is <<>> (miss) or a payload
    rpc,         \* position of the request worker inside a read call
    rcall,       \* locals of the read call in progress
    sinceClear,  \* what happened to the cache since the last successful clear_cache
    evt,         \* <<>> or <<record of the operation that has just returned>>
    trace        \* what the read path has done so far (recorded when trace.on)

svars == <<kind, clock, twoAM, jobs, is_running, tpc, todo, cur, passes, runs, starts,
           stopped, raiser, loop_errors, bg>>

dvars == <<redis_manager, dbPrices, dbHist, cache, rpc, rcall, sinceClear, evt, trace>>

pvars == <<full, logcfg, chart>>

vars == <<svars, dvars, pvars>>

(***************************************************************************)
(* Bounds of the model                                                     *)
(***************************************************************************)
MaxClock == 3700        \* the clock stops advancing here (just past one hour)
MaxStarts == 2          \* start_background_scheduler calls that register jobs
MaxPasses == 2          \* the pass counter of the realtime handler saturates here
MaxOpen == 2            \* store connections left open are counted up to here
MaxLoopErrors == 1      \* exceptions escaping schedule.run_pending()

(***************************************************************************)
(* Program constants, in seconds                                           *)
(***************************************************************************)
RealtimeEvery == 30         \* schedule.every(30).seconds
CollectEveryWeb == 120      \* CryptoWebApp: schedule.every(2).minutes
CollectEverySys == 300      \* CryptoSystem / CryptoScheduler: schedule.every(5).minutes
HourEvery == 3600           \* schedule.every().hour
DayEvery == 86400           \* schedule.every().day.at("02:00")
LoopSleepWeb == 30          \* CryptoWebApp.run_scheduler: time.sleep(30)
LoopSleepSys == 30          \* CryptoSystem.run_scheduler: time.sleep(30)
LoopSleepSched == 10        \* CryptoScheduler.run: time.sleep(10)
RtLoopSleep == 30           \* run_realtime_processor: time.sleep(30)
RtLoopErrSleep == 10        \* run_realtime_processor: time.sleep(10) after an error
LoopErrSleep == 60          \* the three dispatch loops: time.sleep(60) after an error

Kinds == {"CryptoWebApp", "CryptoScheduler", "CryptoSystem"}
Tasks == {"collect", "realtime", "analysis", "full"}
Outcomes == {"ok", "failed", "raised"}
Raisers == {"none", "collect", "realtime"}
FirstTwoAMs == {60}

Min(a, b) == IF a <= b THEN a ELSE b

(***************************************************************************)
(* The schedule library as the schedulers use it                           *)
(***************************************************************************)
CollectEvery(k) == IF k = "CryptoWebApp" THEN CollectEveryWeb ELSE CollectEverySys

LoopSleep(k) ==
    CASE k = "CryptoWebApp" -> LoopSleepWeb
      [] k = "CryptoSystem" -> LoopSleepSys
      [] OTHER -> LoopSleepSched

\* every().day.at("02:00"): the first 02:00 strictly after now
NextTwoAM(now) == IF now < twoAM THEN twoAM ELSE twoAM + DayEvery * (((now - twoAM) \div DayEvery) + 1)

Period(task, k) ==
    CASE task = "collect" -> CollectEvery(k)
      [] task = "realtime" -> RealtimeEvery
      [] task = "analysis" -> HourEvery
      [] OTHER -> DayEvery

\* Job._schedule_next_run at time now
NextRun(task, k, now) == IF task = "full" THEN NextTwoAM(now) ELSE now + Period(task, k)

Job(task, k, now) == [task |-> task, next_run |-> NextRun(task, k, now)]

\* schedule_tasks: four jobs appended to the default scheduler, in this order
schedule_tasks(k, now) ==
    << Job("collect", k, now), Job("realtime", k, now),
       Job("analysis", k, now), Job("full", k, now) >>

\* Job.should_run
should_run(j, now) == now >= j.next_run

DueIdx(js, now) == {i \in DOMAIN js : should_run(js[i], now)}

\* the least element of a set of job indexes in sorted() order: by next_run,
\* ties in registry order (sorted is stable)
First(js, S) ==
    CHOOSE i \in S : \A o \in S :
        \/ js[i].next_run < js[o].next_run
        \/ (js[i].next_run = js[o].next_run /\ i <= o)

RECURSIVE SortedIdx(_, _)
SortedIdx(js, S) ==
    IF S = {} THEN <<>>
    ELSE LET f == First(js, S) IN <<f>> \o SortedIdx(js, S \ {f})

\* run_pending: the due jobs, sorted
Runnable(js, now) == SortedIdx(js, DueIdx(js, now))

\* what the work of a task can do when invoked: the raiser always raises
WorkOutcomes(task) == IF task = raiser THEN {"raised"} ELSE Outcomes

\* does this scheduler's realtime handler call the one-pass entry point?
\* CryptoWebApp: run_realtime_processor_once; the others: run_realtime_processor
OnePassRealtime(k) == k = "CryptoWebApp"

ThreadAlive == tpc \in {"new", "loop", "pending", "handler", "sleep", "error_sleep"}

(***************************************************************************)
(* Scheduler: initial state                                                *)
(***************************************************************************)
\* the request workers that call start_background_scheduler and
\* stop_background_scheduler
Callers == {"w1", "w2"}

\* the record of the start and stop calls:
\*   pc       per caller, its position inside start_background_scheduler
\*   threads  the dispatch threads created so far: "new", "loop" or "exited"
\*   handle   self.scheduler_thread: index of the thread last created (0: None)
\*   last     the call that returned last
NoBg == [pc |-> [c \in Callers |-> "idle"], threads |-> <<>>, handle |-> 0, last |-> "none"]

SchedInit ==
    /\ kind \in Kinds
    /\ clock = 0
    /\ twoAM \in FirstTwoAMs
    /\ jobs = <<>>
    /\ is_running = FALSE
    /\ tpc = "none"
    /\ todo = <<>>
    /\ cur = 0
    /\ passes = 0
    /\ runs = [t \in Tasks |-> 0]
    /\ starts = 0
    /\ stopped = FALSE
    /\ raiser \in Raisers
    /\ loop_errors = 0
    /\ bg = NoBg

(***************************************************************************)
(* Scheduler: operations of the main thread                                *)
(***************************************************************************)
\* CryptoWebApp.start_background_scheduler
start_background_scheduler ==
    /\ kind = "CryptoWebApp"
    /\ starts < MaxStarts
    /\ starts' = starts + 1
    /\ IF ~ThreadAlive
         THEN /\ jobs' = jobs \o schedule_tasks(kind, clock)
              /\ tpc' = "new"
         ELSE UNCHANGED <<jobs, tpc>>
    /\ UNCHANGED dvars
    /\ UNCHANGED pvars
    /\ UNCHANGED <<kind, clock, twoAM, is_running, todo, cur, passes, runs, stopped, raiser, loop_errors, bg>>

\* CryptoWebApp.stop_background_scheduler: the flag is cleared; join(timeout=5)
\* returns whether or not the thread has exited
stop_background_scheduler ==
    /\ kind = "CryptoWebApp"
    /\ starts > 0
    /\ is_running' = FALSE
    /\ stopped' = TRUE
    /\ UNCHANGED dvars
    /\ UNCHANGED pvars
    /\ UNCHANGED <<kind, clock, twoAM, jobs, tpc, todo, cur, passes, runs, starts, raiser, loop_errors, bg>>

\* main.py, menu choice 6: system.schedule_tasks(); system.run_scheduler()
SystemStart ==
    /\ kind = "CryptoSystem"
    /\ tpc = "none"
    /\ starts < MaxStarts
    /\ starts' = starts + 1
    /\ jobs' = jobs \o schedule_tasks(kind, clock)
    /\ tpc' = "new"
    /\ UNCHANGED dvars
    /\ UNCHANGED pvars
    /\ UNCHANGED <<kind, clock, twoAM, is_running, todo, cur, passes, runs, stopped, raiser, loop_errors, bg>>

\* CryptoScheduler.run: setup_schedule() uses the name schedule, which scheduler.py
\* never imports: the first statement raises NameError, outside any try block
SchedulerRun ==
    /\ kind = "CryptoScheduler"
    /\ tpc = "none"
    /\ starts < MaxStarts
    /\ starts' = starts + 1
    /\ tpc' = "crashed"
    /\ UNCHANGED dvars
    /\ UNCHANGED pvars
    /\ UNCHANGED <<kind, clock, twoAM, jobs, is_running, todo, cur, passes, runs, stopped, raiser, loop_errors, bg>>

(***************************************************************************)
(* Start and stop of the background scheduler, step by step: several       *)
(* request workers call them, and every thread created is kept track of    *)
(***************************************************************************)
\* the time up to which the threads started by the request workers are followed
MaxStartClock == 150

\* self.scheduler_thread and self.scheduler_thread.is_alive()
HandleAlive == bg.handle # 0 /\ bg.threads[bg.handle] # "exited"

\* start_background_scheduler, line 836: the test for a live thread; with a
\* live thread the call logs and returns
StartTest(c) ==
    /\ bg.pc[c] = "idle"
    /\ starts < MaxStarts
    /\ starts' = starts + 1
    /\ bg' = IF HandleAlive THEN [bg EXCEPT !.last = "start"]
                            ELSE [bg EXCEPT !.pc[c] = "starting"]
    /\ UNCHANGED dvars
    /\ UNCHANGED pvars
    /\ UNCHANGED <<kind, clock, twoAM, jobs, is_running, tpc, todo, cur, passes, runs,
                   stopped, raiser, loop_errors>>

\* lines 837-840: schedule_tasks(), then the thread is created, stored in
\* self.scheduler_thread and started
StartThread(c) ==
    /\ bg.pc[c] = "starting"
    /\ jobs' = jobs \o schedule_tasks(kind, clock)
    /\ bg' = [bg EXCEPT !.pc[c] = "idle",
                        !.threads = Append(@, "new"),
                        !.handle = Len(bg.threads) + 1,
                        !.last = "start"]
    /\ UNCHANGED dvars
    /\ UNCHANGED pvars
    /\ UNCHANGED <<kind, clock, twoAM, is_running, tpc, todo, cur, passes, runs, starts,
                   stopped, raiser, loop_errors>>

\* stop_background_scheduler, lines 847-849: the flag is cleared; the join
\* returns after at most 5 s
StopCall(c) ==
    /\ bg.pc[c] = "idle"
    /\ is_running' = FALSE
    /\ stopped' = TRUE
    /\ bg' = [bg EXCEPT !.last = "stop"]
    /\ UNCHANGED dvars
    /\ UNCHANGED pvars
    /\ UNCHANGED <<kind, clock, twoAM, jobs, tpc, todo, cur, passes, runs, starts, raiser,
                   loop_errors>>

\* run_scheduler, line 820, in thread t: self.is_running = True
ThreadEnter(t) ==
    /\ bg.threads[t] = "new"
    /\ is_running' = TRUE
    /\ bg' = [bg EXCEPT !.threads[t] = "loop"]
    /\ UNCHANGED dvars
    /\ UNCHANGED pvars
    /\ UNCHANGED <<kind, clock, twoAM, jobs, tpc, todo, cur, passes, runs, starts, stopped,
                   raiser, loop_errors>>

\* run_scheduler, line 824, in thread t: schedule.run_pending() runs every due
\* job of the registry, and each is scheduled again
ThreadRunPending(t) ==
    /\ bg.threads[t] = "loop"
    /\ is_running
    /\ DueIdx(jobs, clock) # {}
    /\ jobs' = [i \in DOMAIN jobs |->
                 IF should_run(jobs[i], clock)
                   THEN [jobs[i] EXCEPT !.next_run = NextRun(jobs[i].task, kind, clock)]
                   ELSE jobs[i]]
    /\ UNCHANGED dvars
    /\ UNCHANGED pvars
    /\ UNCHANGED <<kind, clock, twoAM, is_running, tpc, todo, cur, passes, runs, starts,
                   stopped, raiser, loop_errors, bg>>

\* run_scheduler, line 825, in thread t: time.sleep(30)
ThreadSleep(t) ==
    /\ bg.threads[t] = "loop"
    /\ clock + LoopSleep(kind) <= MaxStartClock
    /\ clock' = clock + LoopSleep(kind)
    /\ UNCHANGED dvars
    /\ UNCHANGED pvars
    /\ UNCHANGED <<kind, twoAM, jobs, is_running, tpc, todo, cur, passes, runs, starts,
                   stopped, raiser, loop_errors, bg>>

\* run_scheduler, line 822, in thread t: the while test finds the flag cleared
ThreadLeave(t) ==
    /\ bg.threads[t] = "loop"
    /\ ~is_running
    /\ bg' = [bg EXCEPT !.threads[t] = "exited"]
    /\ UNCHANGED dvars
    /\ UNCHANGED pvars
    /\ UNCHANGED <<kind, clock, twoAM, jobs, is_running, tpc, todo, cur, passes, runs, starts,
                   stopped, raiser, loop_errors>>

(***************************************************************************)
(* Scheduler: the dispatch loop (run_scheduler)                            *)
(***************************************************************************)
\* self.is_running = True
LoopEnter ==
    /\ tpc = "new"
    /\ is_running' = TRUE
    /\ tpc' = "loop"
    /\ UNCHANGED dvars
    /\ UNCHANGED pvars
    /\ UNCHANGED <<kind, clock, twoAM, jobs, todo, cur, passes, runs, starts, stopped, raiser, loop_errors, bg>>

\* a loop that never tests the flag: while True
LoopCheck_IgnoresFlag ==
    /\ tpc = "loop"
    /\ tpc' = "pending"
    /\ todo' = Runnable(jobs, clock)
    /\ runs' = [t \in Tasks |-> 0]
    /\ UNCHANGED dvars
    /\ UNCHANGED pvars
    /\ UNCHANGED <<kind, clock, twoAM, jobs, is_running, cur, passes, starts, stopped, raiser, loop_errors, bg>>

\* while self.is_running: schedule.run_pending() collects the due jobs
LoopCheck ==
    /\ tpc = "loop"
    /\ IF is_running
         THEN /\ tpc' = "pending"
              /\ todo' = Runnable(jobs, clock)
              /\ runs' = [t \in Tasks |-> 0]
         ELSE /\ tpc' = "exited"
              /\ UNCHANGED <<todo, runs>>
    /\ UNCHANGED dvars
    /\ UNCHANGED pvars
    /\ UNCHANGED <<kind, clock, twoAM, jobs, is_running, cur, passes, starts, stopped, raiser, loop_errors, bg>>

\* run_pending: the next due job's handler is called
InvokeJob ==
    /\ tpc = "pending"
    /\ todo # <<>>
    /\ cur' = Head(todo)
    /\ todo' = Tail(todo)
    /\ passes' = 0
    /\ runs' = [runs EXCEPT ![jobs[Head(todo)].task] = @ + 1]
    /\ tpc' = "handler"
    /\ UNCHANGED dvars
    /\ UNCHANGED pvars
    /\ UNCHANGED <<kind, clock, twoAM, jobs, is_running, starts, stopped, raiser, loop_errors, bg>>

\* a schedule that leaves the due time of a job alone when its run is over
Return_NoReschedule ==
    /\ jobs' = jobs
    /\ cur' = 0
    /\ passes' = 0
    /\ tpc' = "pending"

\* the handler returned: Job.run records the run and schedules the next one
Return ==
    /\ jobs' = [jobs EXCEPT ![cur].next_run = NextRun(jobs[cur].task, kind, clock)]
    /\ cur' = 0
    /\ passes' = 0
    /\ tpc' = "pending"

\* run_pending returned: time.sleep
LoopSleepStep ==
    /\ tpc = "pending"
    /\ todo = <<>>
    /\ clock + LoopSleep(kind) <= MaxClock
    /\ clock' = clock + LoopSleep(kind)
    /\ tpc' = "loop"
    /\ UNCHANGED dvars
    /\ UNCHANGED pvars
    /\ UNCHANGED <<kind, twoAM, jobs, is_running, todo, cur, passes, runs, starts, stopped, raiser, loop_errors, bg>>

\* an exception other than KeyboardInterrupt escapes schedule.run_pending():
\* the jobs still due are left for the next check; except Exception: log
LoopError ==
    /\ tpc = "pending"
    /\ loop_errors < MaxLoopErrors
    /\ loop_errors' = loop_errors + 1
    /\ todo' = <<>>
    /\ tpc' = "error_sleep"
    /\ UNCHANGED dvars
    /\ UNCHANGED pvars
    /\ UNCHANGED <<kind, clock, twoAM, jobs, is_running, cur, passes, runs, starts, stopped, raiser, bg>>

\* a dispatch loop that does not catch the exception
LoopErrorWait_Dies ==
    /\ tpc = "error_sleep"
    /\ tpc' = "crashed"
    /\ UNCHANGED dvars
    /\ UNCHANGED pvars
    /\ UNCHANGED <<kind, clock, twoAM, jobs, is_running, todo, cur, passes, runs, starts, stopped, raiser, loop_errors, bg>>

\* time.sleep(60) in the except clause, then the while test again
LoopErrorWait ==
    /\ tpc = "error_sleep"
    /\ clock + LoopErrSleep <= MaxClock
    /\ clock' = clock + LoopErrSleep
    /\ tpc' = "loop"
    /\ UNCHANGED dvars
    /\ UNCHANGED pvars
    /\ UNCHANGED <<kind, twoAM, jobs, is_running, todo, cur, passes, runs, starts, stopped, raiser, loop_errors, bg>>

\* Ctrl-C while CryptoSystem.run_scheduler, which runs in the main thread, is
\* between two jobs: except KeyboardInterrupt: self.is_running = False; break
LoopInterrupt ==
    /\ kind = "CryptoSystem"
    /\ tpc = "pending"
    /\ ~stopped
    /\ is_running' = FALSE
    /\ stopped' = TRUE
    /\ todo' = <<>>
    /\ tpc' = "exited"
    /\ UNCHANGED dvars
    /\ UNCHANGED pvars
    /\ UNCHANGED <<kind, clock, twoAM, jobs, cur, passes, runs, starts, raiser, loop_errors, bg>>

(***************************************************************************)
(* Scheduler: the job handlers.  Each wraps its work in try/except         *)
(* Exception, so the three outcomes of the work all return normally.       *)
(***************************************************************************)
InHandler(task) == tpc = "handler" /\ cur # 0 /\ jobs[cur].task = task

\* run_realtime_task of CryptoWebApp: run_realtime_processor_once()
run_realtime_task_once ==
    /\ InHandler("realtime")
    /\ OnePassRealtime(kind)
    /\ \E o \in WorkOutcomes("realtime") : Return
    /\ UNCHANGED dvars
    /\ UNCHANGED pvars
    /\ UNCHANGED <<kind, clock, twoAM, is_running, todo, runs, starts, stopped, raiser, loop_errors, bg>>

\* run_realtime_task of CryptoSystem / CryptoScheduler: run_realtime_processor(),
\* whose while True loop makes a pass and sleeps, again and again
run_realtime_processor ==
    /\ InHandler("realtime")
    /\ ~OnePassRealtime(kind)
    /\ \E o \in WorkOutcomes("realtime") :
         LET nap == IF o = "raised" THEN RtLoopErrSleep ELSE RtLoopSleep IN
         /\ clock + nap <= MaxClock
         /\ clock' = clock + nap
    /\ passes' = Min(passes + 1, MaxPasses)
    /\ UNCHANGED dvars
    /\ UNCHANGED pvars
    /\ UNCHANGED <<kind, twoAM, jobs, is_running, tpc, todo, cur, runs, starts, stopped, raiser, loop_errors, bg>>

\* Ctrl-C inside run_realtime_processor: except KeyboardInterrupt: break; the
\* function returns None and the handler returns (one Ctrl-C is modelled)
run_realtime_processor_interrupt ==
    /\ InHandler("realtime")
    /\ ~OnePassRealtime(kind)
    /\ ~stopped
    /\ Return
    /\ stopped' = TRUE
    /\ UNCHANGED dvars
    /\ UNCHANGED pvars
    /\ UNCHANGED <<kind, clock, twoAM, is_running, todo, runs, starts, raiser, loop_errors, bg>>

run_data_collection_task ==
    /\ InHandler("collect")
    /\ \E o \in WorkOutcomes("collect") : Return
    /\ UNCHANGED dvars
    /\ UNCHANGED pvars
    /\ UNCHANGED <<kind, clock, twoAM, is_running, todo, runs, starts, stopped, raiser, loop_errors, bg>>

run_analysis_task ==
    /\ InHandler("analysis")
    /\ \E o \in WorkOutcomes("analysis") : Return
    /\ UNCHANGED dvars
    /\ UNCHANGED pvars
    /\ UNCHANGED <<kind, clock, twoAM, is_running, todo, runs, starts, stopped, raiser, loop_errors, bg>>

\* a handler that skips the analysis when the data processing reported failure
FullNextStep_StopsOnFailure(calls) ==
    IF calls = <<>> THEN "run_data_processing"
    ELSE IF Len(calls) = 1 /\ calls[1].outcome = "ok" THEN "run_analysis"
    ELSE "return"

\* run_full_processing, lines 801-815: what the handler does next, given the
\* steps it has called: data processing, then (unless that raised) analysis
\* whatever the data processing returned, then the return; an exception of
\* either step goes to the except clause, which logs
FullNextStep(calls) ==
    IF calls = <<>> THEN "run_data_processing"
    ELSE IF Len(calls) = 1 /\ calls[1].outcome # "raised" THEN "run_analysis"
    ELSE "return"

\* run_full_processing: one step of the try block is called and returns or raises
run_full_processing_step ==
    /\ InHandler("full")
    /\ FullNextStep(full) # "return"
    /\ \E o \in WorkOutcomes("full") :
         full' = Append(full, [call |-> FullNextStep(full), outcome |-> o])
    /\ UNCHANGED dvars
    /\ UNCHANGED <<logcfg, chart>>
    /\ UNCHANGED svars

\* run_full_processing: the handler returns to run_pending
run_full_processing ==
    /\ InHandler("full")
    /\ FullNextStep(full) = "return"
    /\ Return
    /\ full' = <<>>
    /\ UNCHANGED dvars
    /\ UNCHANGED <<logcfg, chart>>
    /\ UNCHANGED <<kind, clock, twoAM, is_running, todo, runs, starts, stopped, raiser, loop_errors, bg>>

(***************************************************************************)
(* Store, cache and read path: values                                      *)
(***************************************************************************)
Symbols == {"BTC", "ETH"}
Timeframes == {"hour", "day"}
MinuteCadence == 60         \* nominal cadence of the 'minute' timeframe, seconds
Threshold == 50             \* quality_score >= 0.5, as a percentage
DayHours == 24              \* INTERVAL 24 HOUR

\* An optional value is <<>> (None) or <<v>>.  A missing cache entry is <<>>,
\* which is falsy like an empty list.
Range(q) == {q[i] : i \in DOMAIN q}

\* samples the acquisition collaborator can deliver: age is now - timestamp in
\* seconds at the time of the pass, change the reported 24h change (optional)
B1 == [symbol |-> "BTC", price |-> 100, change |-> <<5>>, age |-> 0]
B2 == [symbol |-> "BTC", price |-> 200, change |-> <<>>, age |-> 90]
E1 == [symbol |-> "ETH", price |-> 100, change |-> <<>>, age |-> 60]

\* the batches of scrape_realtime_crypto_data: at most one sample per coin
Batches == {<<>>, <<B1>>, <<B2>>, <<E1>>, <<B1, E1>>, <<B2, E1>>}

\* historical rows: age_h is the age of the candle in hours
H1 == [tf |-> "hour", symbol |-> "BTC", date |-> 1, age_h |-> 30, close |-> 200]
H2 == [tf |-> "hour", symbol |-> "BTC", date |-> 2, age_h |-> 1, close |-> 100]
D1 == [tf |-> "day", symbol |-> "ETH", date |-> 1, age_h |-> 30, close |-> 100]
Z1 == [tf |-> "hour", symbol |-> "ETH", date |-> 1, age_h |-> 25, close |-> 0]

\* what scrape_all_crypto_data can return: (current_data, historical_data)
Scrapes ==
    { [current |-> <<B1, E1>>, hist |-> <<H1>>],
      [current |-> <<B2>>, hist |-> <<H2, D1>>],
      [current |-> <<>>, hist |-> <<H1, H2>>],
      [current |-> <<E1>>, hist |-> <<>>],
      [current |-> <<>>, hist |-> <<>>] }

InsertFaults == {"none", "false", "raise"}

(***************************************************************************)
(* Quality gate (timestamp_manager)                                        *)
(***************************************************************************)
\* get_data_quality_score(timestamp, timeframe), as a percentage: 100 at age 0,
\* 50 at one cadence, 0 from two cadences on, linear in between
get_data_quality_score(age, cadence) ==
    IF age >= 2 * cadence THEN 0 ELSE (100 * (2 * cadence - age)) \div (2 * cadence)

QualityScore(sample) == get_data_quality_score(sample.age, MinuteCadence)

\* realtime_processor.py: if quality_score >= 0.5
Admit(sample) == QualityScore(sample) >= Threshold

(***************************************************************************)
(* Persistent store (crypto_db)                                            *)
(***************************************************************************)
\* insert_current_price: the row becomes the latest row of its symbol
InsertPrice(db, sample) == [db EXCEPT ![sample.symbol] = <<sample>>]

\* the rows 1..n of a batch that pass keep and whose insert succeeds
RECURSIVE InsertAll(_, _, _, _)
InsertAll(db, batch, n, keep) ==
    IF n = 0 THEN db
    ELSE LET before == InsertAll(db, batch, n - 1, keep) IN
         IF n \in keep THEN InsertPrice(before, batch[n]) ELSE before

\* db.get_latest_prices: the latest row of every symbol that has one
SymbolOrder == <<"BTC", "ETH">>

RECURSIVE LatestRows(_, _)
LatestRows(db, n) ==
    IF n = 0 THEN <<>>
    ELSE LatestRows(db, n - 1) \o db[SymbolOrder[n]]

\* hour_data rows of the symbol with date <= now - 24h
OldHourRows(hist, sym) ==
    {r \in hist : r.tf = "hour" /\ r.symbol = sym /\ r.age_h >= DayHours}

\* calculate_24h_change: None (<<>>) when no reference row exists, the reference
\* is zero or the query raised; else the percentage change
calculate_24h_change(hist, sym, current_price, queryRaises) ==
    LET old == OldHourRows(hist, sym) IN
    IF queryRaises \/ old = {} THEN <<>>
    ELSE LET ref == CHOOSE r \in old : \A o \in old : o.date <= r.date IN
         IF ref.close = 0 THEN <<>>
         ELSE << ((current_price - ref.close) * 100) \div ref.close >>

\* a served item that carries whatever calculate_24h_change returned
PriceView_NoFallback(hist, row, queryRaises) ==
    [symbol |-> row.symbol,
     price |-> row.price,
     change |-> calculate_24h_change(hist, row.symbol, row.price, queryRaises)]

\* get_latest_prices, lines 249-265: one served item per store row
PriceView(hist, row, queryRaises) ==
    LET calculated == calculate_24h_change(hist, row.symbol, row.price, queryRaises) IN
    [symbol |-> row.symbol,
     price |-> row.price,
     change |-> IF calculated # <<>> THEN calculated
                ELSE IF row.change # <<>> THEN row.change ELSE <<0>>]

RECURSIVE PriceViews(_, _, _)
PriceViews(hist, rows, bad) ==
    IF rows = <<>> THEN <<>>
    ELSE <<PriceView(hist, Head(rows), Head(rows).symbol \in bad)>>
         \o PriceViews(hist, Tail(rows), bad)

\* what the miss path of get_latest_prices computes from the store
StoreAnswer(db, hist, bad) == PriceViews(hist, LatestRows(db, Len(SymbolOrder)), bad)

\* db.get_chart_data(symbol, timeframe): the rows of the window, by date
RECURSIVE ByDate(_)
ByDate(S) ==
    IF S = {} THEN <<>>
    ELSE LET r == CHOOSE x \in S : \A o \in S : x.date <= o.date IN <<r>> \o ByDate(S \ {r})

ChartRow(r) == [symbol |-> r.symbol, date |-> r.date, close |-> r.close]

RECURSIVE ChartRows(_)
ChartRows(q) == IF q = <<>> THEN <<>> ELSE <<ChartRow(Head(q))>> \o ChartRows(Tail(q))

ChartWindow(hist, sym, tf) == ChartRows(ByDate({r \in hist : r.symbol = sym /\ r.tf = tf}))

(***************************************************************************)
(* Cache store (simple_redis_manager)                                      *)
(***************************************************************************)
ChartKeys == Symbols \X Timeframes

EmptyCache ==
    [latest |-> <<>>, rt |-> [s \in Symbols |-> <<>>], chart |-> [k \in ChartKeys |-> <<>>]]

\* realtime_processor.py lines 68-78 and 88-95: the cached form of a sample
CacheItem(sample) ==
    [symbol |-> sample.symbol, price |-> sample.price, change |-> sample.change]

RECURSIVE CacheItems(_)
CacheItems(q) == IF q = <<>> THEN <<>> ELSE <<CacheItem(Head(q))>> \o CacheItems(Tail(q))

\* cache_realtime_prices(list): the price list entry
cache_realtime_prices(c, items) == [c EXCEPT !.latest = items]

\* cache_realtime_price(symbol, item) for every sample, in order
RECURSIVE cache_realtime_price_all(_, _)
cache_realtime_price_all(c, q) ==
    IF q = <<>> THEN c
    ELSE cache_realtime_price_all([c EXCEPT !.rt[Head(q).symbol] = <<CacheItem(Head(q))>>], Tail(q))

\* clear_all_cache: every key of the namespace is deleted
clear_all_cache(c) == EmptyCache

\* a lookup that takes whatever the cache returns for a hit
IsHit_NotNone(entry) == TRUE

\* if cached_prices: / if cached_data:  (an empty payload counts as a miss)
IsHit(entry) == entry # <<>>

(***************************************************************************)
(* Store, cache and read path: initial state                               *)
(***************************************************************************)
NoCall == [op |-> "none", symbol |-> "", tf |-> "", result |-> <<>>]

\* the record of the read path:
\*   lookup  outcome of the cache lookup of the call in progress or just returned
\*   failed  a cache call of a read call has failed at some time
\*   open    store connections obtained and not released
\*   put     per key, the payload the read path wrote whose time-to-live has not
\*           elapsed since
\*   store   how the store read of the call in progress or just returned ended
\*   bad     the symbols whose reference query raised during that store read
NoTrace ==
    [on |-> FALSE, lookup |-> "none", failed |-> FALSE, open |-> 0,
     put |-> [latest |-> <<>>, chart |-> [k \in ChartKeys |-> <<>>]],
     store |-> "unread", bad |-> {}]

Traced(t) == trace' = IF trace.on THEN t ELSE trace

DataInit ==
    /\ trace = NoTrace
    /\ redis_manager \in {"manager", "none"}
    /\ dbPrices = [s \in Symbols |-> <<>>]
    /\ dbHist = {}
    /\ cache = EmptyCache
    /\ rpc = "idle"
    /\ rcall = NoCall
    /\ sinceClear = "none"
    /\ evt = <<>>

(***************************************************************************)
(* Ingestion passes                                                        *)
(***************************************************************************)
\* the positions of a batch whose insert is attempted by the realtime pass
RealtimeGate(batch) == {i \in DOMAIN batch : Admit(batch[i])}

\* the positions of the current_data whose insert is attempted by
\* process_and_store_data: every one (lines 33-43 apply no quality check)
CollectionGate(batch) == DOMAIN batch

\* positions actually inserted: those attempted, up to a raising insert, less
\* the one the store refused (fault at position at)
Inserted(attempted, fault, at) ==
    {i \in attempted : /\ ~(fault # "none" /\ i = at)
                       /\ ~(fault = "raise" /\ at \in attempted /\ i > at)}

Aborted(attempted, fault, at) == fault = "raise" /\ at \in attempted

\* the samples the realtime pass sends to the cache (lines 68-100): all of them
RealtimeCached(batch, inserted) == batch

Samples(batch, positions) == {batch[i] : i \in positions}

\* the insert calls of the loop over batch[1..n], in order: one per attempted
\* position, the loop ending at an insert that raises
RECURSIVE InsertCalls(_, _, _, _, _)
InsertCalls(batch, n, attempted, fault, at) ==
    IF n = 0 THEN <<>>
    ELSE InsertCalls(batch, n - 1, attempted, fault, at)
         \o (IF n \in attempted /\ ~(Aborted(attempted, fault, at) /\ n > at)
              THEN <<[call |-> "insert_current_price", symbol |-> batch[n].symbol]>>
              ELSE <<>>)

\* lines 81 and 87-100: the list entry, then one entry per sample
CacheCalls(sent) ==
    <<[call |-> "cache_realtime_prices", symbol |-> ""]>>
    \o [i \in 1..Len(sent) |-> [call |-> "cache_realtime_price", symbol |-> sent[i].symbol]]

\* a pass that fills the cache before it writes the store
RealtimeCalls_CacheFirst(batch, attempted, fault, at, written, sent) ==
    (IF written THEN CacheCalls(sent) ELSE <<>>)
    \o InsertCalls(batch, Len(batch), attempted, fault, at)

\* the store and cache calls of process_and_store_realtime_data, in the order
\* the pass makes them: the insert loop (lines 43-62), then the cache (64-100)
RealtimeCalls(batch, attempted, fault, at, written, sent) ==
    InsertCalls(batch, Len(batch), attempted, fault, at)
    \o (IF written THEN CacheCalls(sent) ELSE <<>>)

\* a function that calls disconnect() whether or not it obtained a connection
Session_DisconnectsAlways(connected, work) ==
    <<"connect">> \o work \o <<"disconnect">>

\* the calls of a function of the ingestion side, in order: connect(); when it
\* fails the function returns at once; otherwise the body of the try block
\* runs, as far as it gets, and the finally clause calls disconnect()
Session(connected, work) ==
    <<"connect">> \o (IF connected THEN work \o <<"disconnect">> ELSE <<>>)

CallNames(calls) == [i \in DOMAIN calls |-> calls[i].call]

\* the calls a pass makes inside its try block: the acquisition, then the
\* store and cache calls, none of them when the acquisition returned nothing
PassWork(scraper, acquired, calls) ==
    <<scraper>> \o (IF acquired THEN calls ELSE <<>>)

\* what a traced pass records besides its result:
\*   connected  db.connect() succeeded
\*   scraped    the historical rows the acquisition returned
\*   refused    the samples whose insert failed (returned False or raised)
\*   hrefused   the historical rows whose insert failed
\*   raised     an exception ended the pass
\*   calls      the store and cache calls of the pass, in order
\*   session    every call of the pass, connect() and disconnect() included
PassDetail(connected, scraped, refused, hrefused, raised, calls, session) ==
    [connected |-> connected, scraped |-> scraped, refused |-> refused,
     hrefused |-> hrefused, raised |-> raised, calls |-> calls, session |-> session]

\* the record of a pass that has returned; traced passes also record what the
\* pass did with every sample
PassEvt(traced, op, result, batch, inserted, cachedList, cachedEach, histRows, detail) ==
    IF traced
      THEN [type |-> "pass", op |-> op, result |-> result, batch |-> batch,
            persisted |-> Samples(batch, inserted), cachedList |-> cachedList,
            cachedEach |-> cachedEach, hist |-> histRows, detail |-> detail]
      ELSE [type |-> "pass", op |-> op, result |-> result]

\* RealtimeDataProcessor.process_and_store_realtime_data
RealtimePass(traced) ==
    /\ evt = <<>>
    /\ \E dbOk \in BOOLEAN, batch \in Batches, fault \in InsertFaults, cacheOk \in BOOLEAN :
       \E at \in 0..Len(batch) :
         /\ (fault = "none") <=> (at = 0)
         /\ (at # 0) => (at \in RealtimeGate(batch))
         /\ (~dbOk) => (batch = <<>> /\ fault = "none")
         /\ (batch = <<>> \/ fault = "raise") => cacheOk
         /\ LET attempted == RealtimeGate(batch)
                inserted == Inserted(attempted, fault, at)
                aborted == Aborted(attempted, fault, at)
                sent == RealtimeCached(batch, inserted)
                written == dbOk /\ batch # <<>> /\ ~aborted /\ cacheOk
            IN
            /\ dbPrices' = IF dbOk THEN InsertAll(dbPrices, batch, Len(batch), inserted)
                           ELSE dbPrices
            /\ cache' = IF written
                          THEN cache_realtime_price_all(
                                   cache_realtime_prices(cache, CacheItems(sent)), sent)
                          ELSE cache
            /\ sinceClear' = IF written THEN "none" ELSE sinceClear
            /\ evt' = << PassEvt(traced, "realtime", dbOk /\ batch # <<>> /\ ~aborted, batch,
                                 IF dbOk THEN inserted ELSE {},
                                 IF written THEN Range(sent) ELSE {},
                                 IF written THEN Range(sent) ELSE {}, {},
                                 PassDetail(dbOk, {},
                                     IF fault = "none" THEN {} ELSE {batch[at]}, {},
                                     aborted,
                                     RealtimeCalls(batch, attempted, fault, at,
                                                   written, sent),
                                     Session(dbOk,
                                         PassWork("scrape_realtime_crypto_data",
                                             batch # <<>>,
                                             CallNames(RealtimeCalls(batch, attempted,
                                                 fault, at, written, sent))))) ) >>
    /\ UNCHANGED <<redis_manager, dbHist, rpc, rcall, trace>>
    /\ UNCHANGED svars
    /\ UNCHANGED pvars

process_and_store_realtime_data == RealtimePass(FALSE)

process_and_store_realtime_data_traced == RealtimePass(TRUE)

\* DataProcessor.process_and_store_data: no cache call anywhere in the pass
CollectionPass(traced) ==
    /\ evt = <<>>
    /\ \E dbOk \in BOOLEAN, scrape \in Scrapes, fault \in InsertFaults, hfault \in InsertFaults :
       \E at \in 0..Len(scrape.current), hat \in 0..Len(scrape.hist) :
         /\ (fault = "none") <=> (at = 0)
         /\ (hfault = "none") <=> (hat = 0)
         /\ (fault = "none") \/ (hfault = "none")
         /\ (~dbOk) => (fault = "none" /\ hfault = "none"
                         /\ scrape.current = <<>> /\ scrape.hist = <<>>)
         /\ LET batch == scrape.current
                attempted == CollectionGate(batch)
                inserted == Inserted(attempted, fault, at)
                aborted == Aborted(attempted, fault, at)
                hattempted == IF aborted THEN {} ELSE DOMAIN scrape.hist
                hinserted == Inserted(hattempted, hfault, hat)
                haborted == Aborted(hattempted, hfault, hat)
                rows == IF dbOk THEN Samples(scrape.hist, hinserted) ELSE {}
            IN
            /\ dbPrices' = IF dbOk THEN InsertAll(dbPrices, batch, Len(batch), inserted)
                           ELSE dbPrices
            /\ dbHist' = dbHist \cup rows
            /\ evt' = << PassEvt(traced, "collect", dbOk /\ ~aborted /\ ~haborted, batch,
                                 IF dbOk THEN inserted ELSE {}, {}, {}, rows,
                                 PassDetail(dbOk, Range(scrape.hist),
                                     IF fault = "none" THEN {} ELSE {batch[at]},
                                     IF hfault = "none" \/ aborted THEN {}
                                     ELSE {scrape.hist[hat]},
                                     aborted \/ haborted, <<>>,
                                     Session(dbOk,
                                         PassWork("scrape_all_crypto_data", TRUE,
                                             CallNames(InsertCalls(batch, Len(batch),
                                                 attempted, fault, at))
                                             \o [i \in 1..(IF haborted THEN hat
                                                           ELSE Cardinality(hattempted))
                                                  |-> "insert_historical_data"])))) >>
    /\ UNCHANGED <<redis_manager, cache, rpc, rcall, sinceClear, trace>>
    /\ UNCHANGED svars
    /\ UNCHANGED pvars

process_and_store_data == CollectionPass(FALSE)

\* the record of a query of the ingestion side that has returned
QueryEvt(op, result, connected, session) ==
    [type |-> "query", op |-> op, result |-> result,
     detail |-> [connected |-> connected, session |-> session]]

\* get_summary_statistics, lines 87 and 91-93: the reads of the store
SummaryReads ==
    <<"get_latest_prices", "get_historical_data", "get_historical_data",
      "get_historical_data">>

\* DataProcessor.get_summary_statistics: None without a connection; no except
\* clause, so that a read that raises (the at-th one) leaves through finally
get_summary_statistics ==
    /\ evt = <<>>
    /\ \E dbOk \in BOOLEAN, at \in 0..Len(SummaryReads) :
         /\ (~dbOk) => (at = 0)
         /\ evt' = << QueryEvt("summary",
                               IF ~dbOk THEN "None" ELSE IF at # 0 THEN "raise" ELSE "stats",
                               dbOk,
                               Session(dbOk, SubSeq(SummaryReads, 1,
                                   IF at = 0 THEN Len(SummaryReads) ELSE at))) >>
    /\ UNCHANGED <<redis_manager, dbPrices, dbHist, cache, rpc, rcall, sinceClear, trace>>
    /\ UNCHANGED svars
    /\ UNCHANGED pvars

\* RealtimeDataProcessor.get_realtime_data_from_db: the latest prices, or None
\* without a connection, when the store is empty and when the read raises
get_realtime_data_from_db ==
    /\ evt = <<>>
    /\ \E dbOk \in BOOLEAN, raises \in BOOLEAN :
         /\ (~dbOk) => ~raises
         /\ evt' = << QueryEvt("realtime_from_db",
                               IF dbOk /\ ~raises /\ (\E x \in Symbols : dbPrices[x] # <<>>)
                                 THEN "data" ELSE "None",
                               dbOk,
                               Session(dbOk, <<"get_latest_prices">>)) >>
    /\ UNCHANGED <<redis_manager, dbPrices, dbHist, cache, rpc, rcall, sinceClear, trace>>
    /\ UNCHANGED svars
    /\ UNCHANGED pvars

process_and_store_data_traced == CollectionPass(TRUE)

(***************************************************************************)
(* Read path of CryptoWebApp                                               *)
(***************************************************************************)
\* since: sinceClear when the call looked the cache up
ReadEvt(op, sym, tf, hit, db, put, putval, result, since) ==
    [type |-> "read", op |-> op, symbol |-> sym, tf |-> tf, hit |-> hit, db |-> db,
     put |-> put, putval |-> putval, result |-> result, since |-> since]

Call(op, sym, tf) == [op |-> op, symbol |-> sym, tf |-> tf, result |-> <<>>]

\* is the cache consulted by this call?  (if self.redis_manager: /
\* if self.redis_manager and symbol:)
Consults(op, sym) == redis_manager # "none" /\ (op = "ch" => sym # "")

\* the write-back without the test for a cache manager
WritesBack_NoManagerTest(result) == result # <<>>

\* the write-back without the test for an empty result
WritesBack_AnyResult(result) == redis_manager # "none"

\* is the result written back?  (if self.redis_manager and result:)
WritesBack(result) == redis_manager # "none" /\ result # <<>>

Entry(c, op, sym, tf) == IF op = "lp" THEN c.latest ELSE c.chart[<<sym, tf>>]

\* how the cache lookup of a call ends
LookupOutcome(op, sym, tf, reachable) ==
    IF ~Consults(op, sym) THEN "skipped"
    ELSE IF ~reachable THEN "failed"
    ELSE IF IsHit(Entry(cache, op, sym, tf)) THEN "hit" ELSE "miss"

\* the first part of a read call: the cache lookup
CacheLookup(op, sym, tf) ==
    /\ evt = <<>>
    /\ rpc = "idle"
    /\ \E reachable \in BOOLEAN :
         /\ (~Consults(op, sym)) => reachable
         /\ Traced([trace EXCEPT !.lookup = LookupOutcome(op, sym, tf, reachable),
                                 !.failed = @ \/ (Consults(op, sym) /\ ~reachable)])
         /\ IF Consults(op, sym) /\ reachable /\ IsHit(Entry(cache, op, sym, tf))
              THEN /\ evt' = << ReadEvt(op, sym, tf, TRUE, FALSE, FALSE, <<>>,
                                        Entry(cache, op, sym, tf), sinceClear) >>
                   /\ UNCHANGED <<rpc, rcall>>
              ELSE /\ rpc' = "store"
                   /\ rcall' = Call(op, sym, tf)
                   /\ UNCHANGED evt
    /\ UNCHANGED <<redis_manager, dbPrices, dbHist, cache, sinceClear>>
    /\ UNCHANGED svars
    /\ UNCHANGED pvars

\* get_latest_prices, lines 217-229
get_latest_prices == CacheLookup("lp", "", "")

\* get_chart_data(timeframe, symbol), lines 289-301
get_chart_data == \E sym \in Symbols \cup {""}, tf \in Timeframes : CacheLookup("ch", sym, tf)

\* sinceClear after the call in progress has returned, having written the cache or
\* not: a write by a call that was in flight during the clear leaves "stale"
AfterReturn(wrote) ==
    CASE sinceClear = "clean_inflight" -> IF wrote THEN "stale" ELSE "clean"
      [] OTHER -> IF wrote THEN "none" ELSE sinceClear

\* the call returns result without a write-back
Answer(result, db) ==
    /\ evt' = << ReadEvt(rcall.op, rcall.symbol, rcall.tf, FALSE, db, FALSE, <<>>, result,
                         "none") >>
    /\ rpc' = "idle"
    /\ rcall' = NoCall
    /\ sinceClear' = AfterReturn(FALSE)

\* the call goes on to the write-back
ToWriteBack(result) ==
    /\ rpc' = "put"
    /\ rcall' = [rcall EXCEPT !.result = result]
    /\ UNCHANGED <<evt, sinceClear>>

StoreFaults == {"none", "noconn", "raise"}

\* a read path that answers a failed store read with the rows it was asked for
StoreResult_IgnoresFault(fault, answer) == answer

\* what the store read yields: the rows, or [] when no connection was obtained
\* (lines 236-238, 341-343) or the read raised (lines 275-277, 344-346)
StoreResult(fault, answer) == IF fault = "none" THEN answer ELSE <<>>

\* a recomputation that stores the hourly row it has read as a new row
RecomputeFrame_Stores ==
    /\ dbHist' = dbHist \cup {[r EXCEPT !.date = r.date + 1] : r \in dbHist}
    /\ UNCHANGED <<dbPrices, cache>>

\* calculate_24h_change, lines 189-201: one SELECT on the connection of the
\* caller; no INSERT, no UPDATE, no cache call
RecomputeFrame == UNCHANGED <<dbPrices, dbHist, cache>>

\* get_latest_prices, lines 231-266: the store read after a miss
latest_prices_from_store ==
    /\ rpc = "store"
    /\ rcall.op = "lp"
    /\ \E fault \in StoreFaults, bad \in SUBSET Symbols :
         /\ (fault # "none") => (bad = {})
         /\ LET result == StoreResult(fault, StoreAnswer(dbPrices, dbHist, bad))
            IN /\ IF WritesBack(result) THEN ToWriteBack(result) ELSE Answer(result, TRUE)
               \* the connection is closed in the finally clause, after the write-back
               /\ Traced([trace EXCEPT
                      !.open = IF WritesBack(result) THEN @ + 1 ELSE @,
                      !.store = fault,
                      !.bad = {sym \in bad : dbPrices[sym] # <<>>}])
    /\ RecomputeFrame
    /\ UNCHANGED redis_manager
    /\ UNCHANGED svars
    /\ UNCHANGED pvars

\* get_chart_data, lines 303-331: the store read after a miss
chart_data_from_store ==
    /\ rpc = "store"
    /\ rcall.op = "ch"
    /\ IF rcall.symbol = ""
         THEN Answer(<<>>, FALSE) /\ UNCHANGED trace
         ELSE \E fault \in StoreFaults, connected \in BOOLEAN :
                \* connected: a raise came from the query, after self.db.connect()
                \* had succeeded; self.db.disconnect() (line 312) is then skipped
                /\ connected => (fault = "raise" /\ trace.open < MaxOpen)
                /\ LET result == StoreResult(fault,
                                     ChartWindow(dbHist, rcall.symbol, rcall.tf))
                   IN IF WritesBack(result) THEN ToWriteBack(result) ELSE Answer(result, TRUE)
                /\ Traced([trace EXCEPT !.open = IF connected THEN @ + 1 ELSE @,
                                        !.store = fault])
    /\ UNCHANGED <<redis_manager, dbPrices, dbHist, cache>>
    /\ UNCHANGED svars
    /\ UNCHANGED pvars

\* cache_latest_prices(result) / cache_chart_data(symbol, timeframe, result),
\* lines 267-275 and 332-340, then return result
write_back ==
    /\ rpc = "put"
    /\ \E reachable \in BOOLEAN :
         /\ cache' = IF ~reachable THEN cache
                     ELSE IF rcall.op = "lp" THEN [cache EXCEPT !.latest = rcall.result]
                     ELSE [cache EXCEPT !.chart[<<rcall.symbol, rcall.tf>>] = rcall.result]
         /\ sinceClear' = AfterReturn(reachable)
         /\ Traced([trace EXCEPT
                !.open = IF rcall.op = "lp" THEN @ - 1 ELSE @,
                !.failed = @ \/ ~reachable,
                !.put = IF ~reachable THEN @
                        ELSE IF rcall.op = "lp" THEN [@ EXCEPT !.latest = rcall.result]
                        ELSE [@ EXCEPT !.chart[<<rcall.symbol, rcall.tf>>] = rcall.result]])
    /\ evt' = << ReadEvt(rcall.op, rcall.symbol, rcall.tf, FALSE, TRUE, TRUE, rcall.result,
                         rcall.result, "none") >>
    /\ rpc' = "idle"
    /\ rcall' = NoCall
    /\ UNCHANGED <<redis_manager, dbPrices, dbHist>>
    /\ UNCHANGED svars
    /\ UNCHANGED pvars

(***************************************************************************)
(* Logging configuration (logger_config), called from the threads of the   *)
(* process                                                                 *)
(***************************************************************************)
\* the handlers setup_logging adds, in the order of lines 53, 60 and 67
HandlerKinds == <<"console", "file", "error">>

\* setup_logging, line 28 (get_logger, line 87, makes the same test before it
\* calls setup_logging): with the flag set the call returns a logger,
\* otherwise it goes on to configure the root logger
setup_logging(t) ==
    /\ logcfg.pc[t] = "idle"
    /\ ~logcfg.configured
    /\ logcfg' = [logcfg EXCEPT !.pc[t] = "snapshot",
                                !.first = IF @ = "" THEN t ELSE @]
    /\ UNCHANGED <<full, chart>>
    /\ UNCHANGED dvars
    /\ UNCHANGED svars

\* line 40: root_logger.handlers[:], the copy the for loop runs over
setup_logging_snapshot(t) ==
    /\ logcfg.pc[t] = "snapshot"
    /\ logcfg' = [logcfg EXCEPT !.pc[t] = "remove", !.snapshot[t] = logcfg.handlers]
    /\ UNCHANGED <<full, chart>>
    /\ UNCHANGED dvars
    /\ UNCHANGED svars

\* lines 40-41: removeHandler for every handler of the copy
setup_logging_remove(t) ==
    /\ logcfg.pc[t] = "remove"
    /\ logcfg' = [logcfg EXCEPT
                     !.pc[t] = "add",
                     !.snapshot[t] = <<>>,
                     !.handlers = SelectSeq(@, LAMBDA h : h \notin Range(logcfg.snapshot[t]))]
    /\ UNCHANGED <<full, chart>>
    /\ UNCHANGED dvars
    /\ UNCHANGED svars

\* lines 50-67: addHandler of the console, the file and the error handler
setup_logging_add(t) ==
    /\ logcfg.pc[t] = "add"
    /\ logcfg' = [logcfg EXCEPT
                     !.pc[t] = IF logcfg.added[t] + 1 = Len(HandlerKinds) THEN "flag" ELSE @,
                     !.added[t] = @ + 1,
                     !.handlers = Append(@, [by |-> t, kind |-> HandlerKinds[logcfg.added[t] + 1]])]
    /\ UNCHANGED <<full, chart>>
    /\ UNCHANGED dvars
    /\ UNCHANGED svars

\* line 69: _logging_configured = True, and the logger is returned
setup_logging_done(t) ==
    /\ logcfg.pc[t] = "flag"
    /\ logcfg' = [logcfg EXCEPT !.pc[t] = "idle", !.configured = TRUE]
    /\ UNCHANGED <<full, chart>>
    /\ UNCHANGED dvars
    /\ UNCHANGED svars

(***************************************************************************)
(* Chart curves (process_chart_data)                                       *)
(***************************************************************************)
MaxItems == 12          \* rows handed to process_chart_data
WindowMax == 10         \* window_size = min(10, len(filtered_data))

ItemOrders == {"ascending", "descending", "pairs", "rotated"}
ItemMixes == {"all", "none", "alternate", "first"}

\* the i-th of n rows: volume tells the rows apart, dates come in the given
\* order ("pairs": every date twice), the rows of the symbol BTC by the mix
ChartItem(i, n, order, mix) ==
    [symbol |-> IF mix = "all" \/ (mix = "alternate" /\ i % 2 = 1) \/ (mix = "first" /\ i = 1)
                  THEN "BTC" ELSE "ETH",
     date |-> CASE order = "ascending" -> i
                [] order = "descending" -> n + 1 - i
                [] order = "pairs" -> (i + 1) \div 2
                [] OTHER -> ((i + 2) % n) + 1,
     close |-> 100 + ((7 * i) % 5),
     volume |-> i]

ChartInputs ==
    { [i \in 1..n |-> ChartItem(i, n, order, mix)] :
          n \in 0..MaxItems, order \in ItemOrders, mix \in ItemMixes }

\* filtered_data.sort(key=lambda x: x['date']): the sort is stable
RECURSIVE InsertByDate(_, _)
InsertByDate(sorted, item) ==
    IF sorted = <<>> THEN <<item>>
    ELSE IF sorted[Len(sorted)].date <= item.date THEN Append(sorted, item)
    ELSE Append(InsertByDate(SubSeq(sorted, 1, Len(sorted) - 1), item), sorted[Len(sorted)])

RECURSIVE SortByDate(_)
SortByDate(q) ==
    IF q = <<>> THEN <<>>
    ELSE InsertByDate(SortByDate(SubSeq(q, 1, Len(q) - 1)), q[Len(q)])

RECURSIVE SumOver(_, _, _, _)
SumOver(q, from, to, square) ==
    IF from > to THEN 0
    ELSE (IF square THEN q[from].close * q[from].close ELSE q[from].close)
         + SumOver(q, from + 1, to, square)

\* a window of ten rows whatever the number of rows
window_size_Fixed(n) == WindowMax

\* window_size = min(10, len(filtered_data))
window_size(n) == Min(WindowMax, n)

\* lines 164-176: the entry of the window that ends at row i (counted from 1).
\* variance is kept exact: it is w * w times the variance of the code, whose
\* square root is the volatility
VolatilityEntry(q, i, w) ==
    [date |-> q[i].date,
     variance |-> w * SumOver(q, i - w + 1, i, TRUE)
                  - SumOver(q, i - w + 1, i, FALSE) * SumOver(q, i - w + 1, i, FALSE)]

\* lines 144-177: the loop over the sorted rows, row i (counted from 1) next
RECURSIVE ChartLoop(_, _, _, _)
ChartLoop(q, i, w, acc) ==
    IF i > Len(q) THEN acc
    ELSE ChartLoop(q, i + 1, w,
            [price_data |-> Append(acc.price_data,
                                [date |-> q[i].date, price |-> q[i].close]),
             volume_data |-> Append(acc.volume_data,
                                [date |-> q[i].date, volume |-> q[i].volume]),
             volatility_data |-> IF i - 1 >= w - 1
                                   THEN Append(acc.volatility_data, VolatilityEntry(q, i, w))
                                   ELSE acc.volatility_data])

NoCurves == [price_data |-> <<>>, volume_data |-> <<>>, volatility_data |-> <<>>]

process_chart_data(data, symbol) ==
    IF data = <<>> THEN NoCurves
    ELSE LET filtered_data == SelectSeq(data, LAMBDA item : item.symbol = symbol) IN
         IF filtered_data = <<>> THEN NoCurves
         ELSE ChartLoop(SortByDate(filtered_data), 1,
                        window_size(Len(filtered_data)), NoCurves)

\* a request hands rows and a symbol to process_chart_data and gets the curves
process_chart_data_call ==
    /\ chart.out = <<>>
    /\ chart' = [chart EXCEPT !.out = <<process_chart_data(chart.data, chart.symbol)>>]
    /\ UNCHANGED <<full, logcfg>>
    /\ UNCHANGED dvars
    /\ UNCHANGED svars

(***************************************************************************)
(* Cache management                                                        *)
(***************************************************************************)
CacheTypes == {"", "all", "prices", "charts"}
ClearReturns == {"cleared", "false", "raise"}

\* clear_cache (second definition, lines 688-720): which scopes clear everything
ClearsAll(cache_type) == cache_type = "all" \/ cache_type = ""

\* clear_cache: success is reported when clear_all_cache returned a truthy value
ReportsSuccess(ret) == ret = "cleared"

clear_cache ==
    /\ evt = <<>>
    /\ \E cache_type \in CacheTypes, ret \in ClearReturns :
         LET called == redis_manager # "none" /\ ClearsAll(cache_type)
             success == called /\ ReportsSuccess(ret)
         IN
         /\ (~called) => (ret = "cleared")
         /\ cache' = IF called /\ ret = "cleared" THEN clear_all_cache(cache) ELSE cache
         /\ sinceClear' = IF ~success THEN sinceClear
                          ELSE IF rpc # "idle" THEN "clean_inflight" ELSE "clean"
         /\ evt' = << [type |-> "clear", scope |-> cache_type, success |-> success] >>
    /\ UNCHANGED <<redis_manager, dbPrices, dbHist, rpc, rcall, trace>>
    /\ UNCHANGED svars
    /\ UNCHANGED pvars

\* the cache store drops an entry whose time-to-live has elapsed
Expire ==
    /\ evt = <<>>
    /\ \/ /\ cache.latest # <<>>
          /\ cache' = [cache EXCEPT !.latest = <<>>]
          /\ Traced([trace EXCEPT !.put.latest = <<>>])
       \/ \E k \in ChartKeys :
            /\ cache.chart[k] # <<>>
            /\ cache' = [cache EXCEPT !.chart[k] = <<>>]
            /\ Traced([trace EXCEPT !.put.chart[k] = <<>>])
    /\ UNCHANGED <<redis_manager, dbPrices, dbHist, rpc, rcall, sinceClear, evt>>
    /\ UNCHANGED svars
    /\ UNCHANGED pvars

\* the caller has received the result of the operation that returned
ResultDelivered ==
    /\ evt # <<>>
    /\ evt' = <<>>
    /\ Traced([trace EXCEPT !.lookup = "none", !.store = "unread", !.bad = {}])
    /\ UNCHANGED <<redis_manager, dbPrices, dbHist, cache, rpc, rcall, sinceClear>>
    /\ UNCHANGED svars
    /\ UNCHANGED pvars

DataNext ==
    \/ process_and_store_realtime_data
    \/ process_and_store_data
    \/ get_latest_prices
    \/ get_chart_data
    \/ latest_prices_from_store
    \/ chart_data_from_store
    \/ write_back
    \/ clear_cache
    \/ Expire
    \/ ResultDelivered

\* the scheduler is not started
SchedIdle ==
    /\ kind = "CryptoWebApp"
    /\ clock = 0
    /\ twoAM = 60
    /\ jobs = <<>>
    /\ is_running = FALSE
    /\ tpc = "none"
    /\ todo = <<>>
    /\ cur = 0
    /\ passes = 0
    /\ runs = [t \in Tasks |-> 0]
    /\ starts = 0
    /\ stopped = FALSE
    /\ raiser = "none"
    /\ loop_errors = 0
    /\ bg = NoBg

\* no ingestion pass and no request
DataIdle ==
    /\ trace = NoTrace
    /\ redis_manager = "manager"
    /\ dbPrices = [s \in Symbols |-> <<>>]
    /\ dbHist = {}
    /\ cache = EmptyCache
    /\ rpc = "idle"
    /\ rcall = NoCall
    /\ sinceClear = "none"
    /\ evt = <<>>

\* no run_full_processing, no logging call and no process_chart_data call yet
NoLog == [configured |-> FALSE, handlers |-> <<>>, first |-> "",
          pc |-> [t \in Callers |-> "idle"], snapshot |-> [t \in Callers |-> <<>>],
          added |-> [t \in Callers |-> 0]]

NoChart == [data |-> <<>>, symbol |-> "", out |-> <<>>]

AuxIdle == full = <<>> /\ logcfg = NoLog /\ chart = NoChart

Init == SchedIdle /\ DataInit /\ AuxIdle

Next == DataNext

Spec == Init /\ [][Next]_vars

\* the read path alone, on a store filled by earlier ingestion passes, with the
\* record of the read path kept
StoreStates ==
    { [prices |-> [s \in Symbols |-> <<>>], hist |-> {}],
      [prices |-> [BTC |-> <<B1>>, ETH |-> <<E1>>], hist |-> {H1, Z1}],
      [prices |-> [BTC |-> <<B2>>, ETH |-> <<>>], hist |-> {H2, D1}],
      [prices |-> [BTC |-> <<B1>>, ETH |-> <<>>], hist |-> {H2}] }

ReadInit ==
    /\ SchedIdle
    /\ AuxIdle
    /\ trace = [NoTrace EXCEPT !.on = TRUE]
    /\ redis_manager \in {"manager", "none"}
    /\ \E st \in StoreStates : dbPrices = st.prices /\ dbHist = st.hist
    /\ cache = EmptyCache
    /\ rpc = "idle"
    /\ rcall = NoCall
    /\ sinceClear = "none"
    /\ evt = <<>>

ReadNext ==
    \/ get_latest_prices
    \/ get_chart_data
    \/ latest_prices_from_store
    \/ chart_data_from_store
    \/ write_back
    \/ clear_cache
    \/ Expire
    \/ ResultDelivered

ReadSpec == ReadInit /\ [][ReadNext]_vars

\* the ingestion passes alone, traced sample by sample
IngestNext ==
    \/ process_and_store_realtime_data_traced
    \/ process_and_store_data_traced
    \/ get_summary_statistics
    \/ get_realtime_data_from_db
    \/ clear_cache
    \/ Expire
    \/ ResultDelivered

IngestSpec == Init /\ [][IngestNext]_vars

SchedNext ==
    \/ start_background_scheduler
    \/ stop_background_scheduler
    \/ SystemStart
    \/ SchedulerRun
    \/ LoopEnter
    \/ LoopCheck
    \/ InvokeJob
    \/ LoopSleepStep
    \/ LoopError
    \/ LoopErrorWait
    \/ LoopInterrupt
    \/ run_realtime_task_once
    \/ run_realtime_processor
    \/ run_realtime_processor_interrupt
    \/ run_data_collection_task
    \/ run_analysis_task
    \/ run_full_processing_step
    \/ run_full_processing

\* a scheduler is constructed; no ingestion pass and no request is modelled
SchedStart == SchedInit /\ DataIdle /\ AuxIdle

SchedSpec == SchedStart /\ [][SchedNext]_vars

\* the calls of start_background_scheduler and stop_background_scheduler by the
\* request workers, and the threads they create
StartInit == SchedIdle /\ DataIdle /\ AuxIdle

StartNext ==
    \/ \E c \in Callers : StartTest(c)
    \/ \E c \in Callers : StartThread(c)
    \/ \E c \in Callers : StopCall(c)
    \/ \E t \in DOMAIN bg.threads : ThreadEnter(t)
    \/ \E t \in DOMAIN bg.threads : ThreadRunPending(t)
    \/ \E t \in DOMAIN bg.threads : ThreadSleep(t)
    \/ \E t \in DOMAIN bg.threads : ThreadLeave(t)

StartSpec == StartInit /\ [][StartNext]_vars

\* the calls of setup_logging, get_logger and get_crypto_logger by two threads
LogInit == SchedIdle /\ DataIdle /\ AuxIdle

LogNext ==
    \/ \E t \in Callers : setup_logging(t)
    \/ \E t \in Callers : setup_logging_snapshot(t)
    \/ \E t \in Callers : setup_logging_remove(t)
    \/ \E t \in Callers : setup_logging_add(t)
    \/ \E t \in Callers : setup_logging_done(t)

LogSpec == LogInit /\ [][LogNext]_vars

\* process_chart_data on the rows and the symbol of a request
ChartInit ==
    /\ SchedIdle
    /\ DataIdle
    /\ full = <<>>
    /\ logcfg = NoLog
    /\ chart \in {[data |-> d, symbol |-> sym, out |-> <<>>] : d \in ChartInputs, sym \in Symbols}

ChartNext == process_chart_data_call

ChartSpec == ChartInit /\ [][ChartNext]_vars

(***************************************************************************)
(* Properties of the dispatch loops                                        *)
(***************************************************************************)
Started == tpc # "none"

\* a job is overdue when a whole loop sleep has gone by since its due time
Overdue(j) == clock - j.next_run >= LoopSleep(kind)

\* C1: failure isolation in the dispatch loop.  In every scheduler, while the
\* handler of one job raises on every invocation and nobody has asked the
\* scheduler to stop, the dispatch loop has not terminated and no other job
\* is left waiting past its due time.
C1_FailureIsolation ==
    (raiser # "none" /\ Started /\ ~stopped) =>
        /\ tpc \notin {"crashed", "exited"}
        /\ \A i \in DOMAIN jobs : jobs[i].task # raiser => ~Overdue(jobs[i])

\* C2: no job delays another.  The handler of the realtime job gives control
\* back to the dispatch loop after one ingestion pass: it never starts a second
\* pass within one invocation.
C2_HandlerReturnsAfterOnePass == InHandler("realtime") => passes <= 1

\* C3: single-flight per job.  Over any sequence of start_background_scheduler,
\* stop_background_scheduler and dispatch ticks, the handler of a job is
\* executed at most once for one due time of the job.
C3_SingleFlight == \A t \in Tasks : runs[t] <= 1

(***************************************************************************)
(* Properties of ingestion, cache and read path                            *)
(***************************************************************************)
Returned(type) == evt # <<>> /\ evt[1].type = type

StoredRows == {dbPrices[s][1] : s \in {x \in Symbols : dbPrices[x] # <<>>}}

\* C4: quality-gated admission.  Every snapshot sample an ingestion pass has
\* inserted into the persistent store scores at least 0.5 with the minute
\* cadence.
C4_QualityGatedAdmission == \A row \in StoredRows : QualityScore(row) >= Threshold

\* C5: write-through of the accepted set only.  When
\* process_and_store_realtime_data has written to the cache, the samples of the
\* price list and of the per-symbol entries are exactly the samples that passed
\* the gate and were persisted by the pass.
C5_WriteThroughAcceptedOnly ==
    (Returned("pass") /\ evt[1].op = "realtime") =>
        /\ evt[1].cachedList # {} => evt[1].cachedList = evt[1].persisted
        /\ evt[1].cachedEach # {} => evt[1].cachedEach = evt[1].persisted

\* C6: the cache is never the source of truth.  In every state the cached price
\* list is absent or is the list the read path computes from the persistent
\* store with the 24h-change rule, and every cached chart window is absent or is
\* the window the store holds.
C6_CacheNeverSourceOfTruth ==
    /\ cache.latest # <<>> => cache.latest = StoreAnswer(dbPrices, dbHist, {})
    /\ \A k \in ChartKeys :
         cache.chart[k] # <<>> => cache.chart[k] = ChartWindow(dbHist, k[1], k[2])

\* C7: historical ingestion invalidates stale chart windows.  A step that
\* changes the stored window of a symbol and timeframe leaves the chart entry of
\* that symbol and timeframe absent or equal to the new window.
C7_HistoricalIngestionInvalidates ==
    [][\A k \in ChartKeys :
         ChartWindow(dbHist', k[1], k[2]) # ChartWindow(dbHist, k[1], k[2]) =>
             cache'.chart[k] \in {<<>>, ChartWindow(dbHist', k[1], k[2])}]_vars

\* C8: end-to-end freshness.  A get_latest_prices call served from the cache
\* returns, for every symbol whose persisted sample passed the gate, the price
\* of that sample.
C8_EndToEndFreshness ==
    (Returned("read") /\ evt[1].op = "lp" /\ evt[1].hit) =>
        \A row \in StoredRows :
            QualityScore(row) >= Threshold =>
                \E i \in DOMAIN evt[1].result :
                    /\ evt[1].result[i].symbol = row.symbol
                    /\ evt[1].result[i].price = row.price

\* C9: cache-aside read path.  A call that hits returns the cached payload
\* without a store access and without a cache write; a call that misses reads
\* the store (get_chart_data: when it was given a symbol); the cache is written
\* exactly when the call missed, read the store, got a non-empty result and has a
\* cache manager, and what is written is the result that is returned.
C9_CacheAsideReadPath ==
    /\ Returned("read") =>
         LET r == evt[1] IN
         /\ r.hit => /\ ~r.db /\ ~r.put
                     /\ redis_manager # "none"
                     /\ r.result # <<>>
                     /\ r.result = Entry(cache, r.op, r.symbol, r.tf)
         /\ (~r.hit /\ (r.op = "lp" \/ r.symbol # "")) => r.db
         /\ r.put <=> (~r.hit /\ r.db /\ r.result # <<>> /\ redis_manager # "none")
         /\ r.put => r.putval = r.result
    /\ rpc = "put" => (rcall.result # <<>> /\ redis_manager # "none")

\* a call that missed has read the store, written the result back and returned it
C9_Witness ==
    /\ Returned("read")
    /\ evt[1].put
    /\ evt[1].db
    /\ Entry(cache, evt[1].op, evt[1].symbol, evt[1].tf) = evt[1].result

\* C10: invalidate-all then get misses.  A read call that looks the cache up
\* after clear_cache has returned success misses, whatever read calls were in
\* flight during the clear (no ingestion pass and no read call started after
\* the clear has written the cache since).
C10_InvalidateAllThenMiss ==
    (Returned("read") /\ evt[1].since \in {"clean", "stale"}) => ~evt[1].hit

(***************************************************************************)
(* Properties of the read path, with its record kept                       *)
(***************************************************************************)
\* this step is the cache lookup of a read call
LookupStep ==
    /\ rpc = "idle"
    /\ evt = <<>>
    /\ rpc' = "store" \/ (evt' # <<>> /\ evt'[1].type = "read")

\* the call the lookup step belongs to
LookupCall == IF rpc' = "store" THEN rcall' ELSE evt'[1]

LookupHits == evt' # <<>> /\ evt'[1].hit

\* the keys of the read path and their entries
ReadKeys == {<<"lp", "", "">>} \cup {<<"ch", k[1], k[2]>> : k \in ChartKeys}

KeyOf(c) == <<c.op, c.symbol, c.tf>>

EntryOf(c, key) == Entry(c, key[1], key[2], key[3])

\* a step that drops an entry because its time-to-live has elapsed
ExpiryOf(key) == evt = <<>> /\ evt' = <<>> /\ EntryOf(cache', key) = <<>>

\* C11 (as stated): cache round-trip on the read path.  After a read call has
\* written payload P for a key, every later call with that key that reaches the
\* cache hits and returns exactly P as long as the time-to-live of P has not
\* elapsed, whatever else has been called in between; an entry whose
\* time-to-live elapses is gone, and a call that finds no entry goes on to
\* read the persistent store.
C11_RoundTrip ==
    [][/\ (LookupStep /\ KeyOf(LookupCall) \in ReadKeys) =>
            LET P == EntryOf(trace.put, KeyOf(LookupCall)) IN
            /\ (P # <<>> /\ trace'.lookup # "failed") =>
                   (LookupHits /\ evt'[1].result = P)
            /\ EntryOf(cache, KeyOf(LookupCall)) = <<>> => rpc' = "store"
       /\ \A key \in ReadKeys :
            (EntryOf(cache', key) # EntryOf(cache, key) /\ evt' = <<>>) =>
                EntryOf(cache', key) = <<>>]_vars

\* C11 (amended): after a read call has written payload P for a key, a later
\* call with that key that reaches the cache hits and returns exactly the entry
\* of the key, and the entry stays P until its time-to-live elapses,
\* clear_cache clears the cache, or a write-back or an ingestion pass writes
\* the key again; a call that finds no entry goes on to read the persistent
\* store.
C11_RoundTripUntilReplaced ==
    [][/\ (LookupStep /\ KeyOf(LookupCall) \in ReadKeys) =>
            LET e == EntryOf(cache, KeyOf(LookupCall)) IN
            /\ (e # <<>> /\ trace'.lookup \notin {"failed", "skipped"}) =>
                   (LookupHits /\ evt'[1].result = e)
            /\ LookupHits => evt'[1].result = e
            /\ e = <<>> => rpc' = "store"
       /\ \A key \in ReadKeys :
            EntryOf(cache', key) # EntryOf(cache, key) =>
                \/ ExpiryOf(key)
                \/ /\ evt' # <<>> /\ evt'[1].type = "clear" /\ evt'[1].success
                   /\ EntryOf(cache', key) = <<>>
                \/ /\ evt' # <<>> /\ evt'[1].type = "read" /\ evt'[1].put
                   /\ KeyOf(evt'[1]) = key
                   /\ EntryOf(cache', key) = evt'[1].putval
                   /\ EntryOf(trace'.put, key) = evt'[1].putval
                \/ /\ evt' # <<>> /\ evt'[1].type = "pass" /\ evt'[1].op = "realtime"
                   /\ key[1] = "lp"]_vars

\* a later call has hit the cache and got the payload the read path wrote
C11_Witness ==
    /\ Returned("read")
    /\ evt[1].hit
    /\ KeyOf(evt[1]) \in ReadKeys
    /\ evt[1].result = EntryOf(trace.put, KeyOf(evt[1]))

\* what get_latest_prices computes from the persistent store alone: the store
\* rows with the 24h change of each (recomputed, or the fallback when its query
\* raises), or the empty list when the store gives no connection or raises
StoreOutcomes == {StoreAnswer(dbPrices, dbHist, bad) : bad \in SUBSET Symbols} \cup {<<>>}

\* the call that has returned ran without a usable cache
Degraded == redis_manager = "none" \/ trace.lookup = "failed"

\* C12: degraded cache.  When the cache store is unreachable, at construction
\* (no cache manager) or at the lookup of a call, the call still returns: its
\* lookup counts as a miss, get_latest_prices returns what it computes from the
\* persistent store alone, without a manager nothing is written back, and
\* clear_cache reports failure.
C12_DegradedCache ==
    /\ redis_manager = "none" => (rpc # "put" /\ trace.lookup \in {"none", "skipped"})
    /\ (Returned("read") /\ Degraded) =>
         /\ ~evt[1].hit
         /\ redis_manager = "none" => ~evt[1].put
         /\ evt[1].op = "lp" => (evt[1].db /\ evt[1].result \in StoreOutcomes)
    /\ (Returned("clear") /\ redis_manager = "none") => ~evt[1].success

\* the cache failed at the lookup of get_latest_prices, and the call has
\* returned the rows of the store
C12_Witness ==
    /\ Returned("read")
    /\ evt[1].op = "lp"
    /\ trace.lookup = "failed"
    /\ evt[1].result # <<>>
    /\ evt[1].result = StoreAnswer(dbPrices, dbHist, {})

\* C13: degraded mode is decided once per failure.  Once a cache call of a read
\* call has failed, the read calls that follow do not attempt the cache: their
\* lookup is skipped.
C13_DegradedDecidedOnce ==
    [][(LookupStep /\ trace.failed) => trace'.lookup = "skipped"]_vars

\* C14: store connections are released on every exit path of the read path.
\* Whenever no read call is in progress, every connection that
\* get_latest_prices and get_chart_data have obtained has been closed or
\* disconnected: none is open.
C14_ConnectionsReleased == rpc = "idle" => trace.open = 0

(***************************************************************************)
(* Ingestion passes: results, batches and order                            *)
(***************************************************************************)
PassOf(op) == Returned("pass") /\ evt[1].op = op

\* the acquisition of the pass yielded data
Acquired(e) == e.batch # <<>> \/ e.detail.scraped # {}

\* C16: an ingestion pass (process_and_store_realtime_data or
\* process_and_store_data) returns False only when its acquisition failed or
\* yielded no data at all, and returns True whenever the acquisition yielded
\* data and the pass ran to its end, also when some inserts failed.
C16_PassResult ==
    Returned("pass") =>
        /\ (~evt[1].result) => ~Acquired(evt[1])
        /\ (Acquired(evt[1]) /\ ~evt[1].detail.raised) => evt[1].result

\* C17: in process_and_store_realtime_data a sample that the gate rejects or
\* whose insert fails never aborts the batch: every other sample is still
\* evaluated and, when the gate accepts it, inserted.
C17_BadSampleNeverAborts ==
    (PassOf("realtime") /\ evt[1].detail.connected) =>
        \A i \in DOMAIN evt[1].batch :
            (Admit(evt[1].batch[i]) /\ evt[1].batch[i] \notin evt[1].detail.refused)
                => evt[1].batch[i] \in evt[1].persisted

\* C18: in process_and_store_data a failing historical insert is not fatal:
\* the remaining rows are still submitted and the pass returns True.
C18_HistoricalRowFailureNotFatal ==
    (PassOf("collect") /\ evt[1].detail.hrefused # {}) =>
        /\ (evt[1].detail.scraped \ evt[1].detail.hrefused) \subseteq evt[1].hist
        /\ evt[1].result

IsInsert(c) == c.call = "insert_current_price"

\* C19: within one pass of process_and_store_realtime_data every cache write
\* comes after the insert attempts of all samples.
C19_PersistBeforeCache ==
    PassOf("realtime") =>
        \A i, j \in DOMAIN evt[1].detail.calls :
            (IsInsert(evt[1].detail.calls[i]) /\ ~IsInsert(evt[1].detail.calls[j])) => i < j

C19_Witness ==
    /\ PassOf("realtime")
    /\ Cardinality({i \in DOMAIN evt[1].detail.calls : IsInsert(evt[1].detail.calls[i])}) = 2
    /\ \E j \in DOMAIN evt[1].detail.calls : ~IsInsert(evt[1].detail.calls[j])
    /\ evt[1].result


(***************************************************************************)
(* 24h change of the served rows                                           *)
(***************************************************************************)
\* the hourly row the recomputation refers to: the latest one at or before
\* now - 24h
Reference(hist, sym) ==
    CHOOSE r \in OldHourRows(hist, sym) : \A o \in OldHourRows(hist, sym) : o.date <= r.date

\* the stored reported value, or 0.0 when that is absent
Fallback(row) == IF row.change # <<>> THEN row.change ELSE <<0>>

Recomputed(hist, row) ==
    << ((row.price - Reference(hist, row.symbol).close) * 100)
           \div Reference(hist, row.symbol).close >>

ServedFromStore == Returned("read") /\ evt[1].op = "lp" /\ evt[1].db

StoredSymbols == {sym \in Symbols : dbPrices[sym] # <<>>}

ServedSymbols == {evt[1].result[i].symbol : i \in DOMAIN evt[1].result}

\* C21: when the reference query of calculate_24h_change raises for a symbol,
\* get_latest_prices still returns: one row per stored symbol, the row of the
\* failing symbol with the fallback change, the rows of the other symbols as
\* they are served without the error.
C21_StoreErrorIsNotFound ==
    (ServedFromStore /\ trace.bad # {}) =>
        /\ Len(evt[1].result) = Cardinality(StoredSymbols)
        /\ ServedSymbols = StoredSymbols
        /\ \A i \in DOMAIN evt[1].result :
              LET row == dbPrices[evt[1].result[i].symbol][1] IN
              evt[1].result[i].change =
                  IF row.symbol \in trace.bad
                        \/ OldHourRows(dbHist, row.symbol) = {}
                        \/ Reference(dbHist, row.symbol).close = 0
                    THEN Fallback(row)
                    ELSE Recomputed(dbHist, row)

\* the query raised for BTC only, whose change would have been recomputed, and
\* the row of ETH is served too
C21_Witness ==
    /\ ServedFromStore
    /\ trace.bad = {"BTC"}
    /\ OldHourRows(dbHist, "BTC") # {}
    /\ Len(evt[1].result) = 2


CacheUnavailable(t) == t.lookup \in {"failed", "skipped"}

StoreUnavailable(t) == t.store \in {"noconn", "raise"}

\* C22: when both the cache and the persistent store are unavailable,
\* get_latest_prices and get_chart_data return to the caller, and what they
\* return is the empty list.
C22_FullOutageEmpty ==
    [][(rpc = "store" /\ CacheUnavailable(trace) /\ StoreUnavailable(trace'))
          => (rpc' = "idle" /\ Returned("read")' /\ evt'[1].result = <<>>)]_vars

\* get_latest_prices has returned after a failed lookup and a failed store read
C22_Witness ==
    /\ Returned("read")
    /\ evt[1].op = "lp"
    /\ trace.lookup = "failed"
    /\ StoreUnavailable(trace)
    /\ dbPrices["BTC"] # <<>>


(***************************************************************************)
(* Properties of the dispatch loops: due times, ticks, shutdown            *)
(***************************************************************************)
\* the handler in progress returns to run_pending
HandlerReturns == tpc = "handler" /\ tpc' = "pending"

\* run_pending calls the handler of job i
Dispatches(i) == tpc = "pending" /\ tpc' = "handler" /\ cur' = i

\* C23: a failed run advances the next due time.  When the handler of a job
\* returns, whether its work succeeded, reported failure or raised, the run
\* moves the job's next due time one cadence period ahead (to the next 02:00
\* for the daily job), and a job is only ever invoked when its due time has
\* come: a failed job is not invoked again on the same tick nor before the
\* period has passed.
C23_FailedRunAdvances ==
    [][/\ HandlerReturns =>
             /\ jobs'[cur].next_run = NextRun(jobs[cur].task, kind, clock')
             /\ jobs'[cur].next_run > clock'
             /\ ~should_run(jobs'[cur], clock')
       /\ \A i \in DOMAIN jobs : Dispatches(i) => should_run(jobs[i], clock)]_vars

\* the realtime job of CryptoWebApp has failed once and is due 30 s from now
C23_Witness ==
    /\ kind = "CryptoWebApp"
    /\ raiser = "realtime"
    /\ tpc = "pending"
    /\ runs["realtime"] = 1
    /\ clock > 0
    /\ \E i \in DOMAIN jobs :
          jobs[i].task = "realtime" /\ jobs[i].next_run = clock + RealtimeEvery


\* the smallest cadence among the registered jobs
SmallestCadence ==
    LET periods == {Period(jobs[i].task, kind) : i \in DOMAIN jobs}
    IN CHOOSE p \in periods : \A q \in periods : p <= q

\* the dispatch thread has waited and is back at the test of the while loop
TickWait == tpc \in {"pending", "error_sleep"} /\ tpc' = "loop"

\* C24: in every scheduler the wait between two consecutive checks of the due
\* jobs, the wait after a loop-level exception included, is strictly shorter
\* than the smallest cadence registered in that scheduler.
C24_TickShorterThanCadence ==
    [][(TickWait /\ jobs # <<>>) => clock' - clock < SmallestCadence]_vars


\* the dispatch thread is inside the while loop of run_scheduler
InLoop == tpc \in {"loop", "pending", "handler", "error_sleep"}

C26_RegistryOfFourJobs ==
    (kind = "CryptoWebApp" /\ starts > 0) =>
        \A t \in Tasks : Cardinality({i \in DOMAIN jobs : jobs[i].task = t}) = 1


\* C27: the dispatch loop survives loop-level failures.  When an exception
\* other than KeyboardInterrupt has escaped the check of the due jobs, the
\* thread waits and goes back to the test of the while loop; the thread leaves
\* the loop only by exiting it, with the flag cleared (by a stop or by the
\* handler of KeyboardInterrupt).
C27_LoopSurvives ==
    [][/\ (tpc = "error_sleep") => (tpc' \in {"error_sleep", "loop"})
       /\ (InLoop /\ ~InLoop') => (tpc' = "exited" /\ ~is_running')]_vars

\* after a loop-level exception the loop is dispatching a job again
C27_Witness ==
    /\ loop_errors = 1
    /\ is_running
    /\ tpc = "handler"
    /\ clock >= LoopErrSleep


(***************************************************************************)
(* Scoped invalidation and the frame of the recomputation                  *)
(***************************************************************************)
\* C28: scoped invalidation.  clear_cache('prices') clears the price entries
\* and leaves the chart entries unchanged, clear_cache('charts') clears the
\* chart entries and leaves the price entries unchanged, and clear_cache()
\* with no scope, when it reports success, clears both.
C28_ScopedInvalidation ==
    [][(evt = <<>> /\ Returned("clear")' /\ redis_manager # "none") =>
          /\ (evt'[1].scope = "prices") =>
                /\ cache'.latest = <<>>
                /\ cache'.rt = EmptyCache.rt
                /\ cache'.chart = cache.chart
          /\ (evt'[1].scope = "charts") =>
                /\ cache'.chart = EmptyCache.chart
                /\ cache'.latest = cache.latest
                /\ cache'.rt = cache.rt
          /\ (evt'[1].scope = "" /\ evt'[1].success) => cache' = EmptyCache]_vars


\* C29: recomputation does not write.  The step of get_latest_prices that
\* calls calculate_24h_change for the rows it serves leaves the persistent
\* store and the cache as they were, whether the recomputation returned a
\* value or None.
C29_RecomputationDoesNotWrite ==
    [][(rpc = "store" /\ rcall.op = "lp" /\ rpc' # "store") =>
          (dbPrices' = dbPrices /\ dbHist' = dbHist /\ cache' = cache)]_vars

\* the rows of a store read are served: a value was computed for BTC, None was
\* returned for ETH, whose reference is zero
C29_Witness ==
    /\ ServedFromStore
    /\ trace.bad = {}
    /\ Len(evt[1].result) = 2
    /\ evt[1].result[1].change = Recomputed(dbHist, dbPrices["BTC"][1])
    /\ Reference(dbHist, "ETH").close = 0


(***************************************************************************)
(* Start and stop of the background scheduler                              *)
(***************************************************************************)
\* C30: a stop request is never lost.  When stop_background_scheduler has been
\* called after the one start_background_scheduler, the dispatch thread is not
\* inside its loop with the flag set: the loop is on its way out.
C30_StopNeverLost ==
    (kind = "CryptoWebApp" /\ starts = 1 /\ stopped /\ InLoop) => ~is_running


LiveThreads == {t \in DOMAIN bg.threads : bg.threads[t] # "exited"}

\* C31: at most one dispatch thread.  For every interleaving of
\* start_background_scheduler calls, two concurrent calls included, at most
\* one dispatch thread is alive, and the registry holds the four jobs of one
\* registration for every thread that was started.
C31_AtMostOneThread ==
    /\ Cardinality(LiveThreads) <= 1
    /\ (\A c \in Callers : bg.pc[c] = "idle") => Len(jobs) = 4 * Len(bg.threads)

\* C32: start takes effect.  Whenever start_background_scheduler has returned
\* and no stop has been requested since, a dispatch thread is about to run
\* its loop or is in its loop with the flag set.
C32_StartTakesEffect ==
    (bg.last = "start") =>
        \E t \in DOMAIN bg.threads :
            \/ bg.threads[t] = "new"
            \/ (bg.threads[t] = "loop" /\ is_running)


Disconnects(session) ==
    Cardinality({i \in DOMAIN session : session[i] = "disconnect"})

\* the value a function of the ingestion side returns when connect() fails
FailureValue(e) == IF e.type = "pass" THEN e.result = FALSE ELSE e.result = "None"

\* C33: connection balance of the ingestion side.  In
\* process_and_store_data, process_and_store_realtime_data,
\* get_summary_statistics and get_realtime_data_from_db a successful connect()
\* is followed by exactly one disconnect(), the last call on every exit path,
\* and after a failed connect() the function returns its failure value and
\* has made no other call.
C33_ConnectionBalance ==
    (Returned("pass") \/ Returned("query")) =>
        LET session == evt[1].detail.session IN
        /\ session[1] = "connect"
        /\ evt[1].detail.connected =>
              /\ Disconnects(session) = 1
              /\ session[Len(session)] = "disconnect"
        /\ (~evt[1].detail.connected) =>
              /\ session = <<"connect">>
              /\ FailureValue(evt[1])

\* a read of get_summary_statistics raised after the connection was obtained
C33_Witness ==
    /\ Returned("query")
    /\ evt[1].op = "summary"
    /\ evt[1].result = "raise"
    /\ evt[1].detail.connected
    /\ Disconnects(evt[1].detail.session) = 1


\* C34: empty results are never cached and never served from the cache.  A
\* call of get_latest_prices or get_chart_data that writes the cache writes a
\* non-empty payload, a call that hit returns a non-empty payload, and a call
\* that returns the empty list has neither hit nor written the cache.
C34_EmptyNeverCachedNorServed ==
    /\ Returned("read") =>
         /\ evt[1].put => evt[1].putval # <<>>
         /\ evt[1].hit => evt[1].result # <<>>
         /\ (evt[1].result = <<>>) => (~evt[1].hit /\ ~evt[1].put)
    /\ \A key \in ReadKeys :
         (EntryOf(cache, key) = <<>> /\ LookupOutcome(key[1], key[2], key[3], TRUE) # "skipped")
             => LookupOutcome(key[1], key[2], key[3], TRUE) = "miss"

\* with a cache manager, a call has missed, read the store, found nothing and
\* returned the empty list without writing the cache
C34_Witness ==
    /\ Returned("read")
    /\ redis_manager # "none"
    /\ evt[1].db
    /\ evt[1].result = <<>>
    /\ ~evt[1].put
    /\ EntryOf(cache, KeyOf(evt[1])) = <<>>


\* C35: run_full_processing.  The analysis step is called only after the
\* data-processing step, it is called whenever the data-processing step has
\* returned, with success or with failure, and whatever either step did
\* (an exception included) the handler returns to run_pending.
C35_AnalysisAfterDataProcessing ==
    [][/\ \A i \in DOMAIN full :
            full[i].call = "run_analysis" =>
                (i = 2 /\ full[1].call = "run_data_processing" /\ full[1].outcome # "raised")
       /\ (InHandler("full") /\ tpc' # "handler") =>
            /\ tpc' = "pending"
            /\ full # <<>>
            /\ full[1].call = "run_data_processing"
            /\ (full[1].outcome \in {"ok", "failed"}) =>
                  (Len(full) = 2 /\ full[2].call = "run_analysis")]_vars

\* the data processing has reported failure and the analysis, called after it,
\* has raised
C35_Witness ==
    /\ InHandler("full")
    /\ Len(full) = 2
    /\ full[1].outcome = "failed"
    /\ full[2].call = "run_analysis"
    /\ full[2].outcome = "raised"


\* C36: CryptoScheduler.run.  Once run has been called the four jobs are
\* registered, and the call goes on to the initial data collection and to the
\* dispatch loop: it does not end before the loop.
C36_SchedulerRunReachesLoop ==
    (kind = "CryptoScheduler" /\ starts > 0) =>
        /\ Len(jobs) = 4
        /\ tpc # "crashed"


(***************************************************************************)
(* Properties of the chart curves                                          *)
(***************************************************************************)
RowsOf(data, symbol) == {i \in DOMAIN data : data[i].symbol = symbol}

Ascending(q) == \A i, j \in DOMAIN q : i < j => q[i].date <= q[j].date

\* the entries of a curve are the rows of the symbol, one entry per row: as
\* many entries carry a date and a value as rows of the symbol do
OnePerRow(curve, field, data, column, symbol) ==
    /\ Len(curve) = Cardinality(RowsOf(data, symbol))
    /\ \A i \in RowsOf(data, symbol) :
         Cardinality({k \in DOMAIN curve :
                         curve[k].date = data[i].date /\ curve[k][field] = data[i][column]})
         = Cardinality({j \in RowsOf(data, symbol) :
                         data[j].date = data[i].date /\ data[j][column] = data[i][column]})

\* C37: process_chart_data returns price_data and volume_data with exactly one
\* entry per input row of the symbol, in ascending date order, and
\* volatility_data with n - w + 1 entries, n the number of rows of the symbol
\* and w = min(10, n); with no row of the symbol, or no row at all, the three
\* curves are empty.
C37_CurveShapes ==
    (chart.out # <<>>) =>
        LET out == chart.out[1]
            n == Cardinality(RowsOf(chart.data, chart.symbol))
        IN
        /\ OnePerRow(out.price_data, "price", chart.data, "close", chart.symbol)
        /\ OnePerRow(out.volume_data, "volume", chart.data, "volume", chart.symbol)
        /\ Ascending(out.price_data)
        /\ Ascending(out.volume_data)
        /\ IF n = 0 THEN out = NoCurves
           ELSE Len(out.volatility_data) = n - Min(WindowMax, n) + 1

\* twelve rows of the symbol, handed over latest first: the window is ten rows
\* and three windows fit
C37_Witness ==
    /\ chart.out # <<>>
    /\ Cardinality(RowsOf(chart.data, chart.symbol)) = 12
    /\ chart.data[1].date > chart.data[2].date
    /\ Len(chart.out[1].volatility_data) = 3
    /\ chart.out[1].price_data[1].date = 1


(***************************************************************************)
(* Properties of the logging configuration                                 *)
(***************************************************************************)
\* C38: logging is configured once.  Whenever no logging call is in progress
\* and the configuration has been made, the root logger holds exactly three
\* handlers, the console, file and error handler that the first
\* configuration installed.
C38_ConfiguredOnce ==
    (logcfg.configured /\ \A t \in Callers : logcfg.pc[t] = "idle") =>
        logcfg.handlers = [i \in DOMAIN HandlerKinds |->
                              [by |-> logcfg.first, kind |-> HandlerKinds[i]]]

==============================================================================
